---- MODULE Spec2Model ----
(***************************************************************************)
(* Model of the docker_image connection plugin                             *)
(* (src/src/ansible_docker_ci/image/connection/plugin.py).                 *)
(*                                                                         *)
(* The container runtime is a set of running containers with their two     *)
(* labels.  Every Connection object is a small sequential process whose   *)
(* position (pc) sits between two calls to the runtime, so that calls of   *)
(* different connections interleave as the calls of different ansible      *)
(* workers do.  The strategy's cleanup is a further process.               *)
(***************************************************************************)
EXTENDS Integers, Sequences, FiniteSets, TLC

\* ------------------------------------------------------------------ bounds
NumConns == 3        \* Connection objects constructed during the run
MaxCleanups == 2     \* invocations of the strategy's cleanup
MaxExternal == 1     \* containers stopped by something other than the plugin
MaxPathLen == 5      \* longest remote path (in components) fetch_file is followed to

Conns == 1..NumConns
Pids == {100, 200}
Hosts == {"foobar", "baz"}

\* ------------------------------------------------------------------- paths
\* A path string is modelled by what startswith("/"), os.path.split and
\* os.path.join read of it: whether it starts with "/", and its components.
Path(a, cs) == [abs |-> a, comps |-> cs]
NoPath == Path(FALSE, <<>>)

\* str.startswith("/")
StartsWithSlash(p) == p.abs

\* os.path.split(p)[0]: everything before the last component
SplitHead(p) == Path(p.abs, SubSeq(p.comps, 1, Len(p.comps) - 1))

\* os.path.split(p)[1]: the last component
SplitTail(p) == p.comps[Len(p.comps)]

\* os.path.join(d, t): t alone when t is absolute, else d + "/" + t.
\* No component is normalised: "." and ".." stay in the string.
Join(d, t) == IF t.abs THEN t ELSE Path(d.abs, d.comps \o t.comps)

\* -------------------------------------------------- the container's files
\* The image's file system: directories /, /d (holding f, l, m) and the
\* empty /e; /d/f is a regular file; /d/l and /d/m are symbolic links whose
\* targets the initial state chooses.
Dirs == {<<>>, <<"d">>, <<"e">>}
Files == {<<"d", "f">>}
Links == {<<"d", "l">>, <<"d", "m">>}
Targets ==
    { Path(FALSE, <<"f">>), Path(FALSE, <<"l">>), Path(FALSE, <<"m">>),
      Path(FALSE, <<".", "l">>), Path(FALSE, <<"..", "d", "m">>),
      Path(TRUE, <<"d", "l">>), Path(TRUE, <<"d", "m">>),
      Path(FALSE, <<"x">>), Path(FALSE, <<"..">>), Path(FALSE, <<"..", "e">>) }
FileSystems == [Links -> Targets]
DefaultFs == [k \in Links |-> IF k = <<"d", "l">> THEN Path(FALSE, <<"m">>) ELSE Path(FALSE, <<"f">>)]

\* The bytes of the image's regular file.
ImageContent == "img"

\* What the runtime does with the path of a get_archive request: it walks the
\* components from the root, "." staying, ".." going up (the root is its own
\* parent), a name going into a directory.  <<"?">> stands for "no such file".
RECURSIVE Walk(_, _)
Walk(at, cs) ==
    IF cs = <<>> THEN at
    ELSE IF at \notin Dirs THEN <<"?">>
    ELSE LET h == Head(cs) IN
         IF h = "." THEN Walk(at, Tail(cs))
         ELSE IF h = ".." THEN Walk(SubSeq(at, 1, Len(at) - 1), Tail(cs))
         ELSE Walk(Append(at, h), Tail(cs))
Resolve(p) == Walk(<<>>, p.comps)

\* Files, links and directories below a directory (they follow it in its archive).
Below(dir) == {o \in Dirs \cup Files \cup Links :
                 Len(o) > Len(dir) /\ SubSeq(o, 1, Len(dir)) = dir}

\* The archive of one regular file, as tarfile reads it.
FileArchive == [found |-> TRUE, n |-> 1, type |-> "file", linkname |-> NoPath]

\* client.api.get_archive(container, path), read by tarfile: the kind of the
\* first member, its link name, and the number of members.  The last
\* component of the path is not followed when it is a link.
GetArchive(links, p) ==
    LET o == Resolve(p) IN
    IF o \in Files THEN FileArchive
    ELSE IF o \in Links THEN [found |-> TRUE, n |-> 1, type |-> "sym", linkname |-> links[o]]
    ELSE IF o \in Dirs THEN [found |-> TRUE, n |-> 1 + Cardinality(Below(o)), type |-> "dir", linkname |-> NoPath]
    ELSE [found |-> FALSE, n |-> 0, type |-> "none", linkname |-> NoPath]

\* Local files of the controller: os.path.exists(in_path), their bytes and
\* their st_mode (0o644 and 0o4755).
LocalFiles == {Path(TRUE, <<"src", "a">>), Path(TRUE, <<"src", "b">>)}
LocalContent == [p \in LocalFiles |-> IF p.comps[2] = "a" THEN "a" ELSE "b"]
LocalMode == [p \in LocalFiles |-> IF p.comps[2] = "a" THEN 420 ELSE 2541]
LocalInputs == LocalFiles \cup {Path(TRUE, <<"src", "missing">>)}
RemoteOutputs == {Path(TRUE, <<"d", "g">>), Path(FALSE, <<"g">>)}
LocalOutputs == {Path(TRUE, <<"out">>), Path(FALSE, <<"out">>)}
RemoteInputs == {Path(TRUE, k) : k \in Links \cup Files}

\* A local path at which there is no file.
Absent == "<absent>"

\* tarinfo.mode &= 0o700, line 162: the three owner bits of the mode
And0o700(mode) == ((mode \div 64) % 8) * 64

\* What `id -u && id -g` prints in a container: the uid and the gid
IdOutputs == {<<0, 0>>, <<1000, 100>>}

\* result.get("ExitCode"): absent (None), zero or not
ExitCodes == {-1, 0, 1}
None == -1
OrZero(code) == IF code = None THEN 0 ELSE code

\* stdout and stderr of exec_start: None or bytes
NoBytes == "<None>"
Streams == {NoBytes, "x"}
OrEmpty(bytes) == IF bytes = NoBytes THEN "" ELSE bytes

\* ------------------------------------------------------------------- state
VARIABLES
    labels,          \* runtime: labels[i] = the two labels of the i-th container created
    containers,      \* runtime: ids of the running containers
    fs,              \* runtime: the link targets of the image's file system
    reachable,       \* runtime: whether it answers requests
    stored,          \* runtime: the files put into containers, by <<container id, file>>
    local,           \* controller: the bytes of the local output files
    playbook_pid,    \* Connection._playbook_pid
    hostname,        \* Connection.hostname
    container,       \* Connection.container: the cached container id, 0 before it is resolved
    connected,       \* Connection._connected
    log,             \* per connection, over its life: containers.run calls that returned, container ids addressed
    pc,              \* where each connection is between two runtime calls
    op,              \* the interface call each connection is in
    calls,           \* the runtime calls made so far by the interface call in progress
    result,          \* exec_command: what exec_start and exec_inspect returned; put_file: the parsed ids, put_successful
    in_path,         \* fetch_file: the current remote path
    known_in_paths,  \* fetch_file: the visited paths
    archive_requests, \* the paths requested from get_archive or put_archive, in order
    out,             \* what the interface call returned or raised, until the engine takes it
    cleanup,         \* the strategy's cleanup: its position, its pid, the listed containers left
    counts           \* how many cleanups and external stops happened

vars == <<labels, containers, fs, reachable, stored, local, playbook_pid, hostname, container,
          connected, log, pc, op, calls, result, in_path, known_in_paths, archive_requests,
          out, cleanup, counts>>

\* What Goto, Return and Enter set: the control state of the interface calls.
flowVars == <<pc, op, calls, in_path, known_in_paths, archive_requests, out>>

NoOp == [kind |-> "none", in_data |-> FALSE, in_path |-> NoPath, out_path |-> NoPath]
NoOut == [result |-> "none", msg |-> "", exit |-> 0, stdout |-> "", stderr |-> ""]
NoResult == [ExitCode |-> None, stdout |-> NoBytes, stderr |-> NoBytes, ids |-> <<0, 0>>,
             put_successful |-> FALSE]

\* Connection.__init__, lines 68-72: nothing resolved, not connected.
InitConns ==
    /\ container = [c \in Conns |-> 0]
    /\ connected = [c \in Conns |-> FALSE]
    /\ log = [c \in Conns |-> [creates |-> 0, targets |-> {}]]
    /\ pc = [c \in Conns |-> "idle"]
    /\ op = [c \in Conns |-> NoOp]
    /\ calls = [c \in Conns |-> {}]
    /\ result = [c \in Conns |-> NoResult]
    /\ in_path = [c \in Conns |-> NoPath]
    /\ known_in_paths = [c \in Conns |-> {}]
    /\ archive_requests = [c \in Conns |-> <<>>]
    /\ out = [c \in Conns |-> NoOut]

InitRuntime ==
    /\ labels = <<>>
    /\ containers = {}
    /\ reachable = TRUE
    /\ stored = <<>>
    /\ local = [p \in LocalOutputs |-> Absent]
    /\ cleanup = [pc |-> "idle", pid |-> 0, todo |-> {}]
    /\ counts = [cleanups |-> 0, external |-> 0]

\* The first connection serves (100, "foobar"); the others any pid and host.
Init ==
    /\ InitConns
    /\ InitRuntime
    /\ fs = DefaultFs
    /\ playbook_pid \in [Conns -> Pids]
    /\ hostname \in [Conns -> Hosts]
    /\ playbook_pid[1] = 100
    /\ hostname[1] = "foobar"

InitFetch ==
    /\ InitConns
    /\ InitRuntime
    /\ fs \in FileSystems
    /\ playbook_pid = [c \in Conns |-> 100]
    /\ hostname = [c \in Conns |-> "foobar"]

\* ------------------------------------------------------------- the runtime
NoHost == "<none>"
ConnectionFailure == "AnsibleConnectionFailure"
FileNotFound == "AnsibleFileNotFound"
DockerError == "docker.errors.APIError"

\* list_matching_containers without the pid label in its filter.
ListAnyRun(p, h) == {i \in containers : h = NoHost \/ labels[i].host = h}

\* list_matching_containers(pid, hostname): the running containers carrying
\* the pid label and, when a hostname is given, the hostname label.
list_matching_containers(p, h) ==
    {i \in containers : labels[i].pid = p /\ (h = NoHost \/ labels[i].host = h)}

\* possible_host_containers[0]: the runtime documents no order for its list,
\* so the first element is any of the listed containers.
FirstOf(listed) == listed

\* A request on the connection's container is answered: the runtime is
\* reachable and the container runs.
Alive(c) == reachable /\ container[c] \in containers

\* self.container.id in a request (lines 106, 125, 166, 185): the cached id
\* is the one addressed.
Targeted(c) == [log EXCEPT ![c].targets = @ \cup {container[c]}]

\* The file a put_archive or get_archive path names in a container, and
\* whether put_file stored a file there.
StoredAt(id, o) == <<id, o>> \in DOMAIN stored
ContentOf(id, o) == IF StoredAt(id, o) THEN stored[<<id, o>>].content ELSE ImageContent

\* get_archive on a container: a file put there comes before what the image has.
ArchiveOf(id, p) == IF StoredAt(id, Resolve(p)) THEN FileArchive ELSE GetArchive(fs, p)

Out(res, msg) == [result |-> res, msg |-> msg, exit |-> 0, stdout |-> "", stderr |-> ""]
Ok == Out("ok", "")

\* ---------------------------------------------------------- control flow
\* The interface call o of connection c goes on from `where`, having made the
\* runtime calls cs.
Goto(c, o, where, cs) ==
    /\ pc' = [pc EXCEPT ![c] = where]
    /\ op' = [op EXCEPT ![c] = o]
    /\ calls' = [calls EXCEPT ![c] = cs]
    /\ UNCHANGED <<in_path, known_in_paths, archive_requests, out>>

\* The interface call o of connection c returns (r.result = "ok") or raises
\* (r.result names the exception class), having made the runtime calls cs and
\* the archive requests rq.
Return(c, o, r, cs, rq) ==
    /\ pc' = [pc EXCEPT ![c] = "done"]
    /\ op' = [op EXCEPT ![c] = o]
    /\ calls' = [calls EXCEPT ![c] = cs]
    /\ out' = [out EXCEPT ![c] = r]
    /\ archive_requests' = [archive_requests EXCEPT ![c] = rq]
    /\ known_in_paths' = [known_in_paths EXCEPT ![c] =
                             IF o.kind = "fetch" THEN @ \cup {rq[i] : i \in 1..Len(rq)} ELSE @]
    /\ UNCHANGED in_path

runtimeVars == <<labels, containers, fs, reachable, stored, local, playbook_pid, hostname,
                 cleanup, counts>>

\* The engine takes the result; the locals of the call are dropped.
Finish(c) ==
    /\ pc[c] = "done"
    /\ pc' = [pc EXCEPT ![c] = "idle"]
    /\ op' = [op EXCEPT ![c] = NoOp]
    /\ calls' = [calls EXCEPT ![c] = {}]
    /\ result' = [result EXCEPT ![c] = NoResult]
    /\ out' = [out EXCEPT ![c] = NoOut]
    /\ in_path' = [in_path EXCEPT ![c] = NoPath]
    /\ known_in_paths' = [known_in_paths EXCEPT ![c] = {}]
    /\ archive_requests' = [archive_requests EXCEPT ![c] = <<>>]
    /\ UNCHANGED <<container, connected, log>>
    /\ UNCHANGED runtimeVars

\* The two checks of put_file in the other order.
PutFileChecksSwapped(c, o, cs) ==
    IF o.in_path \notin LocalFiles
    THEN Return(c, o, Out(FileNotFound, "in_path"), cs, <<>>)
    ELSE IF ~StartsWithSlash(o.out_path)
    THEN Return(c, o, Out(ConnectionFailure, "Only absolute paths are available"), cs, <<>>)
    ELSE Goto(c, o, "id", cs)

\* put_file after super().put_file(), lines 145-150: the two checks, then the
\* exec of "id -u && id -g".
PutFileChecks(c, o, cs) ==
    IF ~StartsWithSlash(o.out_path)
    THEN Return(c, o, Out(ConnectionFailure, "Only absolute paths are available"), cs, <<>>)
    ELSE IF o.in_path \notin LocalFiles
    THEN Return(c, o, Out(FileNotFound, "in_path"), cs, <<>>)
    ELSE Goto(c, o, "id", cs)

\* fetch_file after super().fetch_file(), lines 176-178: the check, then the
\* loop starts with an empty visited set.
FetchFileChecks(c, o, cs) ==
    IF ~StartsWithSlash(o.out_path)
    THEN Return(c, o, Out(ConnectionFailure, "Only absolute paths are available"), cs, <<>>)
    ELSE /\ pc' = [pc EXCEPT ![c] = "fetch"]
         /\ op' = [op EXCEPT ![c] = o]
         /\ calls' = [calls EXCEPT ![c] = cs]
         /\ in_path' = [in_path EXCEPT ![c] = o.in_path]
         /\ known_in_paths' = [known_in_paths EXCEPT ![c] = {}]
         /\ archive_requests' = [archive_requests EXCEPT ![c] = <<>>]
         /\ UNCHANGED out

\* What follows the inherited entry of an interface call (ConnectionBase's
\* ensure_connect wrapper has returned, the connection is connected).
Enter(c, o, cs) ==
    CASE o.kind = "connect" -> Return(c, o, Ok, cs, <<>>)
      [] o.kind = "exec" -> Goto(c, o, "exec", cs)
      [] o.kind = "put" -> PutFileChecks(c, o, cs)
      [] o.kind = "fetch" -> FetchFileChecks(c, o, cs)

\* _connect as it would be with the reload made whether connected or not.
EnsureConnectAlways(c, o) ==
    /\ Goto(c, o, IF container[c] = 0 THEN "list" ELSE "reload", {})
    /\ UNCHANGED <<container, connected, log, result>>

\* _connect(), lines 101-107, reached directly or through the ensure_connect
\* wrapper of the inherited exec_command, put_file and fetch_file: nothing to
\* do when connected; else the container is resolved (listed, unless cached)
\* and reloaded.
EnsureConnect(c, o) ==
    IF connected[c]
    THEN Enter(c, o, {}) /\ UNCHANGED <<container, connected, log, result>>
    ELSE /\ Goto(c, o, IF container[c] = 0 THEN "list" ELSE "reload", {})
         /\ UNCHANGED <<container, connected, log, result>>

\* The engine starts an interface call on an idle connection, and none while
\* the cleanup of the connection's run is removing containers.
MayStart(c) ==
    /\ pc[c] = "idle"
    /\ ~(cleanup.pc = "removing" /\ cleanup.pid = playbook_pid[c])

\* ------------------------------------------------- the interface calls
Connect(c) ==
    /\ MayStart(c)
    /\ EnsureConnect(c, [NoOp EXCEPT !.kind = "connect"])
    /\ UNCHANGED runtimeVars

\* exec_command with the in_data check after the inherited entry.
ExecCommandLate(c, in_data) ==
    /\ MayStart(c)
    /\ EnsureConnect(c, [NoOp EXCEPT !.kind = "exec", !.in_data = in_data])
    /\ UNCHANGED runtimeVars

\* exec_command, lines 119-123: in_data is refused before anything else.
ExecCommand(c, in_data) ==
    /\ MayStart(c)
    /\ LET o == [NoOp EXCEPT !.kind = "exec", !.in_data = in_data] IN
       IF in_data
       THEN /\ Return(c, o, Out(ConnectionFailure, "in_data is not supported yet"), {}, <<>>)
            /\ UNCHANGED <<container, connected, log, result>>
       ELSE EnsureConnect(c, o)
    /\ UNCHANGED runtimeVars

\* put_file, line 144: the inherited entry comes first.
PutFile(c, src, dst) ==
    /\ MayStart(c)
    /\ EnsureConnect(c, [NoOp EXCEPT !.kind = "put", !.in_path = src, !.out_path = dst])
    /\ UNCHANGED runtimeVars

\* fetch_file, line 175: the inherited entry comes first.
FetchFile(c, src, dst) ==
    /\ MayStart(c)
    /\ EnsureConnect(c, [NoOp EXCEPT !.kind = "fetch", !.in_path = src, !.out_path = dst])
    /\ UNCHANGED runtimeVars

\* close as it would be if it stopped the connection's container.
CloseRemoving(c) ==
    /\ MayStart(c)
    /\ connected' = [connected EXCEPT ![c] = FALSE]
    /\ containers' = containers \ {container[c]}
    /\ Return(c, [NoOp EXCEPT !.kind = "close"], Ok, {"remove"}, <<>>)
    /\ UNCHANGED <<container, log, result, labels, fs, reachable, stored, local,
                   playbook_pid, hostname, cleanup, counts>>

\* close as it would be if it dropped the cached container.
CloseForgetting(c) ==
    /\ MayStart(c)
    /\ connected' = [connected EXCEPT ![c] = FALSE]
    /\ container' = [container EXCEPT ![c] = 0]
    /\ Return(c, [NoOp EXCEPT !.kind = "close"], Ok, {}, <<>>)
    /\ UNCHANGED <<log, result>>
    /\ UNCHANGED runtimeVars

\* close, lines 209-211
Close(c) ==
    /\ MayStart(c)
    /\ connected' = [connected EXCEPT ![c] = FALSE]
    /\ Return(c, [NoOp EXCEPT !.kind = "close"], Ok, {}, <<>>)
    /\ UNCHANGED <<container, log, result>>
    /\ UNCHANGED runtimeVars

\* ------------------------------------------- the steps of a connection
\* Connection.container, lines 82-88: list; a non-empty list gives the
\* container, an empty one leads to the create call.  An exception of the
\* list call leaves the property unset.
List(c) ==
    /\ pc[c] = "list"
    /\ LET listed == list_matching_containers(playbook_pid[c], hostname[c])
           cs == calls[c] \cup {"list"}
       IN  IF ~reachable
           THEN /\ Return(c, op[c], Out(DockerError, "list"), cs, <<>>)
                /\ UNCHANGED container
           ELSE IF listed # {}
           THEN \E x \in FirstOf(listed) :
                   /\ container' = [container EXCEPT ![c] = x]
                   /\ Goto(c, op[c], "reload", cs)
           ELSE /\ Goto(c, op[c], "create", cs)
                /\ UNCHANGED container
    /\ UNCHANGED <<connected, log, result>>
    /\ UNCHANGED runtimeVars

\* Create as it would be under a lock held from the list to the create: the
\* list is looked at again, and a matching container is taken when there is one.
CreateLocked(c) ==
    /\ pc[c] = "create"
    /\ LET listed == list_matching_containers(playbook_pid[c], hostname[c])
           id == Len(labels) + 1
       IN  IF listed # {}
           THEN /\ \E x \in listed : container' = [container EXCEPT ![c] = x]
                /\ UNCHANGED <<labels, containers, log>>
           ELSE /\ labels' = Append(labels, [pid |-> playbook_pid[c], host |-> hostname[c]])
                /\ containers' = containers \cup {id}
                /\ container' = [container EXCEPT ![c] = id]
                /\ log' = [log EXCEPT ![c].creates = @ + 1]
    /\ Goto(c, op[c], "reload", calls[c] \cup {"create"})
    /\ UNCHANGED <<connected, result, fs, reachable, stored, local, playbook_pid, hostname,
                   cleanup, counts>>

\* Connection.container, lines 89-98: containers.run with the two labels; the
\* container it returns is cached.
Create(c) ==
    /\ pc[c] = "create"
    /\ LET id == Len(labels) + 1
           cs == calls[c] \cup {"create"}
       IN  IF ~reachable
           THEN /\ Return(c, op[c], Out(DockerError, "create"), cs, <<>>)
                /\ UNCHANGED <<labels, containers, container, log>>
           ELSE /\ labels' = Append(labels, [pid |-> playbook_pid[c], host |-> hostname[c]])
                /\ containers' = containers \cup {id}
                /\ container' = [container EXCEPT ![c] = id]
                /\ log' = [log EXCEPT ![c].creates = @ + 1]
                /\ Goto(c, op[c], "reload", cs)
    /\ UNCHANGED <<connected, result, fs, reachable, stored, local, playbook_pid, hostname,
                   cleanup, counts>>

\* _connect, lines 106-107: reload, then connected.
Reload(c) ==
    /\ pc[c] = "reload"
    /\ LET cs == calls[c] \cup {"reload"} IN
       IF Alive(c)
       THEN /\ connected' = [connected EXCEPT ![c] = TRUE]
            /\ Enter(c, op[c], cs)
       ELSE /\ Return(c, op[c], Out(DockerError, "reload"), cs, <<>>)
            /\ UNCHANGED connected
    /\ log' = Targeted(c)
    /\ UNCHANGED <<container, result>>
    /\ UNCHANGED runtimeVars

ExecCalls == {"exec_create", "exec_start", "exec_inspect"}

\* line 140 as it would be without the defaults.
ExecReturnAsIs(r) == [Ok EXCEPT !.exit = r.ExitCode, !.stdout = r.stdout, !.stderr = r.stderr]

\* exec_command, line 140: the returned triple
ExecReturn(r) ==
    [Ok EXCEPT !.exit = OrZero(r.ExitCode), !.stdout = OrEmpty(r.stdout), !.stderr = OrEmpty(r.stderr)]

\* exec_command, lines 124-140
Exec(c) ==
    /\ pc[c] = "exec"
    /\ IF Alive(c)
       THEN \E code \in ExitCodes, so \in Streams, se \in Streams :
               LET r == [NoResult EXCEPT !.ExitCode = code, !.stdout = so, !.stderr = se] IN
               /\ result' = [result EXCEPT ![c] = r]
               /\ Return(c, op[c], ExecReturn(r), calls[c] \cup ExecCalls, <<>>)
       ELSE /\ Return(c, op[c], Out(DockerError, "exec_create"), calls[c] \cup {"exec_create"}, <<>>)
            /\ UNCHANGED result
    /\ log' = Targeted(c)
    /\ UNCHANGED <<container, connected>>
    /\ UNCHANGED runtimeVars

\* put_file going on to the upload whatever the exit code of id is.
IdFailedNever(exit_code) == FALSE

\* put_file, line 151: if exit_code
IdFailed(exit_code) == exit_code # 0

\* put_file, lines 150-153: exec_command("id -u && id -g") and its output
PutFileId(c) ==
    /\ pc[c] = "id"
    /\ IF Alive(c)
       THEN \E code \in ExitCodes, ids \in IdOutputs :
               /\ result' = [result EXCEPT ![c] = [NoResult EXCEPT !.ExitCode = code, !.ids = ids]]
               /\ IF IdFailed(OrZero(code))
                  THEN Return(c, op[c], Out(ConnectionFailure, "Could not obtain uid/gid"),
                              calls[c] \cup ExecCalls, <<>>)
                  ELSE Goto(c, op[c], "upload", calls[c] \cup ExecCalls)
       ELSE /\ Return(c, op[c], Out(DockerError, "exec_create"), calls[c] \cup {"exec_create"}, <<>>)
            /\ UNCHANGED result
    /\ log' = Targeted(c)
    /\ UNCHANGED <<container, connected>>
    /\ UNCHANGED runtimeVars

\* put_file, lines 156-164: the one member of the archive
TarInfo(c) ==
    [content |-> LocalContent[op[c].in_path],
     mode |-> And0o700(LocalMode[op[c].in_path]),
     uid |-> result[c].ids[1], uname |-> "",
     gid |-> result[c].ids[2], gname |-> ""]

\* put_file, lines 154-171: put_archive into the directory of out_path, and
\* its boolean.  The runtime refuses a directory that does not exist and a
\* file in the place of a directory.
PutFileUpload(c) ==
    /\ pc[c] = "upload"
    /\ LET out_dir == SplitHead(op[c].out_path)
           out_file == SplitTail(op[c].out_path)
           cs == calls[c] \cup {"put_archive"}
           rq == Append(archive_requests[c], out_dir)
           key == <<container[c], Append(Resolve(out_dir), out_file)>>
       IN  IF ~Alive(c) \/ Resolve(out_dir) \notin Dirs \/ key[2] \in Dirs
           THEN /\ Return(c, op[c], Out(DockerError, "put_archive"), cs, rq)
                /\ UNCHANGED <<stored, result>>
           ELSE \E put_successful \in BOOLEAN :
                   /\ result' = [result EXCEPT ![c].put_successful = put_successful]
                   /\ IF put_successful
                      THEN /\ stored' = [k \in DOMAIN stored \cup {key} |->
                                            IF k = key THEN TarInfo(c) ELSE stored[k]]
                           /\ Return(c, op[c], Ok, cs, rq)
                      ELSE /\ Return(c, op[c], Out(ConnectionFailure, "Unknown error while sending file"), cs, rq)
                           /\ UNCHANGED stored
    /\ log' = Targeted(c)
    /\ UNCHANGED <<container, connected>>
    /\ UNCHANGED <<labels, containers, fs, reachable, local, playbook_pid, hostname, cleanup, counts>>

\* The visited check left out.
VisitedNever(c) == FALSE

\* fetch_file, line 181: in_path in known_in_paths
Visited(c) == in_path[c] \in known_in_paths[c]

\* The link resolved against the root of the file system.
NextPathFromRoot(p, linkname) == Join(Path(TRUE, <<>>), linkname)

\* fetch_file, line 198: the link is resolved against the directory of in_path
NextPath(p, linkname) == Join(SplitHead(p), linkname)

\* fetch_file, line 194: len(members) != 1
BadMembersLength(n) == n # 1

\* out_path opened for writing before the member is looked at.
WriteLocalFirst(c, archive, content) ==
    [local EXCEPT ![op[c].out_path] =
        IF ~BadMembersLength(archive.n) /\ archive.type = "file" THEN content ELSE ""]

\* fetch_file, lines 194-206: out_path is opened and written when the one
\* member of the archive is a regular file.
WriteLocal(c, archive, content) ==
    IF ~BadMembersLength(archive.n) /\ archive.type = "file"
    THEN [local EXCEPT ![op[c].out_path] = content]
    ELSE local

\* fetch_file, lines 180-207: one turn of the loop
FetchLoop(c) ==
    /\ pc[c] = "fetch"
    /\ IF Visited(c)
       THEN /\ Return(c, op[c], Out(ConnectionFailure, "Found infinite symbolic link loop"),
                      calls[c], archive_requests[c])
            /\ UNCHANGED <<log, local>>
       ELSE LET cs == calls[c] \cup {"get_archive"}
                rq == Append(archive_requests[c], in_path[c])
                archive == ArchiveOf(container[c], in_path[c])
                content == ContentOf(container[c], Resolve(in_path[c]))
            IN  /\ log' = Targeted(c)
                /\ IF ~Alive(c) \/ ~archive.found
                   THEN /\ Return(c, op[c], Out(DockerError, "get_archive"), cs, rq)
                        /\ UNCHANGED local
                   ELSE /\ local' = WriteLocal(c, archive, content)
                        /\ IF BadMembersLength(archive.n)
                           THEN Return(c, op[c], Out(ConnectionFailure, "Bad members length"), cs, rq)
                           ELSE IF archive.type = "sym"
                           THEN /\ Len(NextPath(in_path[c], archive.linkname).comps) <= MaxPathLen
                                /\ in_path' = [in_path EXCEPT ![c] = NextPath(in_path[c], archive.linkname)]
                                /\ known_in_paths' = [known_in_paths EXCEPT ![c] = @ \cup {in_path[c]}]
                                /\ archive_requests' = [archive_requests EXCEPT ![c] = rq]
                                /\ calls' = [calls EXCEPT ![c] = cs]
                                /\ UNCHANGED <<pc, op, out>>
                           ELSE IF archive.type # "file"
                           THEN Return(c, op[c], Out(ConnectionFailure, "Bad member"), cs, rq)
                           ELSE Return(c, op[c], Ok, cs, rq)
    /\ UNCHANGED <<container, connected, result>>
    /\ UNCHANGED <<labels, containers, fs, reachable, stored, playbook_pid, hostname, cleanup, counts>>

\* ------------------------------------------------------------- cleanup
\* StrategyBaseExtension.cleanup, line 221: the list of the run's containers.
\* The engine calls it when no interface call of the run is in progress.
CleanupList(p) ==
    /\ cleanup.pc # "removing"
    /\ counts.cleanups < MaxCleanups
    /\ \A c \in Conns : playbook_pid[c] = p => pc[c] = "idle"
    /\ LET listed == list_matching_containers(p, NoHost) IN
       cleanup' = IF ~reachable
                  THEN [pc |-> "failed", pid |-> p, todo |-> {}]
                  ELSE [pc |-> IF listed = {} THEN "done" ELSE "removing",
                        pid |-> p, todo |-> listed]
    /\ counts' = [counts EXCEPT !.cleanups = @ + 1]
    /\ UNCHANGED <<labels, containers, fs, reachable, stored, local, playbook_pid, hostname>>
    /\ UNCHANGED <<container, connected, log, result>>
    /\ UNCHANGED flowVars

\* StrategyBaseExtension.cleanup, lines 221-222: container.remove(force=True)
\* on the next listed container; an exception of remove ends the loop.
CleanupRemove ==
    /\ cleanup.pc = "removing"
    /\ \E x \in FirstOf(cleanup.todo) :
          IF x \in containers /\ reachable
          THEN /\ containers' = containers \ {x}
               /\ cleanup' = [cleanup EXCEPT !.todo = @ \ {x},
                                             !.pc = IF cleanup.todo = {x} THEN "done" ELSE "removing"]
          ELSE /\ cleanup' = [cleanup EXCEPT !.pc = "failed"]
               /\ UNCHANGED containers
    /\ UNCHANGED <<labels, fs, reachable, stored, local, playbook_pid, hostname, counts>>
    /\ UNCHANGED <<container, connected, log, result>>
    /\ UNCHANGED flowVars

\* Something else than the plugin stops a container (created with remove=True,
\* it is gone once stopped).
ExternalStop ==
    /\ counts.external < MaxExternal
    /\ \E x \in containers : containers' = containers \ {x}
    /\ counts' = [counts EXCEPT !.external = @ + 1]
    /\ UNCHANGED <<labels, fs, reachable, stored, local, playbook_pid, hostname, cleanup>>
    /\ UNCHANGED <<container, connected, log, result>>
    /\ UNCHANGED flowVars

\* The runtime stops answering, or answers again.
RuntimeToggle ==
    /\ reachable' = ~reachable
    /\ UNCHANGED <<labels, containers, fs, stored, local, playbook_pid, hostname, cleanup, counts>>
    /\ UNCHANGED <<container, connected, log, result>>
    /\ UNCHANGED flowVars

\* ------------------------------------------------------ specifications
\* The interface calls and steps of one connection.
ConnNext(c) ==
    \/ Connect(c)
    \/ \E in_data \in BOOLEAN : ExecCommand(c, in_data)
    \/ \E src \in LocalInputs, dst \in RemoteOutputs : PutFile(c, src, dst)
    \/ \E src \in RemoteInputs, dst \in LocalOutputs : FetchFile(c, src, dst)
    \/ Close(c)
    \/ List(c)
    \/ Create(c)
    \/ Reload(c)
    \/ Exec(c)
    \/ PutFileId(c)
    \/ PutFileUpload(c)
    \/ FetchLoop(c)
    \/ Finish(c)

\* Everything together.  The claims are checked under the restrictions of
\* Next below, each of which TLC explores completely.
Next ==
    \/ \E c \in Conns : ConnNext(c)
    \/ \E p \in Pids : CleanupList(p)
    \/ CleanupRemove
    \/ ExternalStop
    \/ RuntimeToggle

Spec == Init /\ [][Next]_vars

\* The connections of one (pid, hostname) pair connecting concurrently.
InitRace ==
    /\ InitConns
    /\ InitRuntime
    /\ fs = DefaultFs
    /\ playbook_pid = [c \in Conns |-> 100]
    /\ hostname = [c \in Conns |-> "foobar"]

NextRace ==
    \E c \in Conns :
        \/ Connect(c)
        \/ List(c)
        \/ Create(c)
        \/ Reload(c)
        \/ Finish(c)

SpecRace == InitRace /\ [][NextRace]_vars

\* A run: connections of any pids and hostnames connecting, containers
\* stopped from outside, and the cleanups.
NextRun ==
    \/ \E c \in Conns : Connect(c) \/ List(c) \/ Create(c) \/ Reload(c) \/ Finish(c)
    \/ \E p \in Pids : CleanupList(p)
    \/ CleanupRemove
    \/ ExternalStop

SpecRun == Init /\ [][NextRun]_vars

\* One connection making every interface call, with cleanups and outside stops.
NextConn ==
    \/ ConnNext(1)
    \/ \E p \in Pids : CleanupList(p)
    \/ CleanupRemove
    \/ ExternalStop

SpecConn == InitRace /\ [][NextConn]_vars

\* One connection fetching from every file system of FileSystems.
NextFetch ==
    \/ \E src \in RemoteInputs, dst \in LocalOutputs : FetchFile(1, src, dst)
    \/ List(1)
    \/ Create(1)
    \/ Reload(1)
    \/ FetchLoop(1)
    \/ Finish(1)

SpecFetch == InitFetch /\ [][NextFetch]_vars

\* The connections connecting and closing while the runtime comes and goes.
NextDown ==
    \/ \E c \in Conns : Connect(c) \/ Close(c) \/ List(c) \/ Create(c) \/ Reload(c) \/ Finish(c)
    \/ RuntimeToggle

SpecDown == InitRace /\ [][NextDown]_vars

\* The paths files are put to and fetched from: the image's file and a new one.
TransferPaths == {Path(TRUE, <<"d", "f">>), Path(TRUE, <<"d", "g">>)}

\* No other connection is in an interface call.
Alone(c) == \A b \in Conns \ {c} : pc[b] = "idle"

\* put_file and fetch_file called while no other call is in progress.
PutFileAlone(c, src, dst) == Alone(c) /\ PutFile(c, src, dst)
FetchFileAlone(c, src, dst) == Alone(c) /\ FetchFile(c, src, dst)

\* Two connections of one (pid, hostname) pair connecting concurrently and
\* putting and fetching files one call after the other.
NextTransfer ==
    \E c \in {1, 2} :
        \/ Connect(c)
        \/ \E src \in LocalFiles, dst \in TransferPaths : PutFileAlone(c, src, dst)
        \/ \E src \in TransferPaths : FetchFileAlone(c, src, Path(TRUE, <<"out">>))
        \/ List(c)
        \/ Create(c)
        \/ Reload(c)
        \/ PutFileId(c)
        \/ PutFileUpload(c)
        \/ FetchLoop(c)
        \/ Finish(c)

SpecTransfer == InitRace /\ [][NextTransfer]_vars

\* ================================================================ claims
SamePair(a, b) == playbook_pid[a] = playbook_pid[b] /\ hostname[a] = hostname[b]

\* A connection whose resolution has returned a container that still runs.
Resolved(b) == container[b] # 0 /\ container[b] \in containers

\* C1: a resolution that starts (its list call) after a resolution of the
\* same (pid, hostname) has returned a container, still running, yields that
\* same container and goes on to no create.
C1_SequentialResolutionSameId ==
    [][\A c \in Conns : \A b \in Conns \ {c} :
          (pc[c] = "list" /\ pc'[c] # "list" /\ SamePair(b, c) /\ Resolved(b))
              => (container'[c] = container[b] /\ pc'[c] # "create")]_vars

\* C2: at most one running container carries the labels of a (pid, hostname) pair.
C2_AtMostOnePerPair ==
    \A p \in Pids : \A h \in Hosts : Cardinality(list_matching_containers(p, h)) <= 1

\* C3: the create step rests on the connection's own earlier list alone:
\* a connection that listed nothing is at the create step with its list call
\* made, and its create step starts a new container carrying its two labels
\* and takes it as its container, whatever runs by then.
C3_ListThenCreateUnguarded ==
    /\ [](\A c \in Conns : pc[c] = "create" => (container[c] = 0 /\ calls[c] = {"list"}))
    /\ [][\A c \in Conns :
            (pc[c] = "create" /\ pc'[c] # "create")
                => /\ labels' = Append(labels, [pid |-> playbook_pid[c], host |-> hostname[c]])
                   /\ containers' = containers \cup {Len(labels')}
                   /\ container'[c] = Len(labels')]_vars

\* C3's case: two connections of one pair have each created a container in
\* the call they are in, and both containers run.
C3_TwoCreated ==
    \E a \in Conns : \E b \in Conns \ {a} :
        /\ SamePair(a, b)
        /\ "create" \in calls[a] /\ "create" \in calls[b]
        /\ Resolved(a) /\ Resolved(b)
        /\ container[a] # container[b]

\* The step with which an invocation of cleanup ends, normally or by an exception.
CleanupEnds == cleanup.pc = "removing" /\ cleanup'.pc # "removing"

\* The running containers of a run after the step.
RunContainersAfter(p) == {i \in containers' : labels'[i].pid = p}

\* C4: when cleanup, invoked with no interface call of the run in progress,
\* ends, no container labeled with its pid runs any more, whatever its
\* hostname label.
C4_CleanupRemovesAll ==
    [][CleanupEnds => RunContainersAfter(cleanup.pid) = {}]_vars

\* C5: a failed remove does not end the batch: once cleanup is over, whether
\* a remove failed or not, none of the containers it listed runs.
C5_RemoveFailureDoesNotAbort ==
    cleanup.pc \in {"done", "failed"} => cleanup.todo \cap containers = {}

\* C6: close makes no runtime call, clears the connected flag and leaves the
\* containers and the cached container as they are; and a step in which a
\* running container goes is a remove of cleanup or a stop from outside,
\* never a step of a connection.
C6_CloseKeepsContainer ==
    /\ [][\A c \in Conns :
            (pc[c] = "idle" /\ pc'[c] = "done" /\ op'[c].kind = "close")
                => /\ containers' = containers
                   /\ labels' = labels
                   /\ container' = container
                   /\ calls'[c] = {}
                   /\ ~connected'[c]
                   /\ out'[c] = Ok]_vars
    /\ [][(containers \ containers' # {})
            => /\ UNCHANGED <<pc, op, calls, container, connected>>
               /\ \/ (cleanup.pc = "removing" /\ cleanup' # cleanup)
                  \/ counts'.external = counts.external + 1]_vars

\* C6's case: a connection that resolved its container has been closed, and
\* the container runs.
C6_ClosedStillRunning ==
    \E c \in Conns :
        /\ pc[c] = "done" /\ op[c].kind = "close"
        /\ ~connected[c]
        /\ Resolved(c)

Range(q) == {q[i] : i \in 1..Len(q)}
NoDuplicates(q) == \A i \in 1..Len(q) : \A j \in 1..Len(q) : i # j => q[i] # q[j]

\* C7: fetch_file ends on every finite file system because the visited check
\* stops it before it comes back to a file or link it already asked for: no
\* two archive requests of one fetch_file are for the same object of the
\* container's file system.
C7_NoObjectRequestedTwice ==
    \A c \in Conns :
        \A i \in 1..Len(archive_requests[c]) : \A j \in 1..Len(archive_requests[c]) :
            i # j => Resolve(archive_requests[c][i]) # Resolve(archive_requests[c][j])

\* The number of links on the chain that starts at path p, up to the first
\* path that comes again.
RECURSIVE ChainLength(_, _, _)
ChainLength(links, p, seen) ==
    IF p \in seen \/ Len(p.comps) > MaxPathLen THEN 0
    ELSE LET a == GetArchive(links, p) IN
         IF a.found /\ a.type = "sym"
         THEN 1 + ChainLength(links, NextPath(p, a.linkname), seen \cup {p})
         ELSE 0

LoopFailure == Out(ConnectionFailure, "Found infinite symbolic link loop")

\* C8: no path is requested twice by one fetch_file, the requests number at
\* most the length of the link chain plus one, a loop failure is an
\* AnsibleConnectionFailure, and a fetch_file whose current path was already
\* requested fails with it at once, without a further request.
C8_LoopDetected ==
    /\ [](\A c \in Conns :
            /\ NoDuplicates(archive_requests[c])
            /\ op[c].kind = "fetch" =>
                   Len(archive_requests[c]) <= ChainLength(fs, op[c].in_path, {}) + 1
            /\ out[c].msg = LoopFailure.msg =>
                   /\ out[c] = LoopFailure
                   /\ in_path[c] \in Range(archive_requests[c])
                   /\ Len(archive_requests[c]) <= ChainLength(fs, op[c].in_path, {}))
    /\ [][\A c \in Conns :
            (pc[c] = "fetch" /\ in_path[c] \in Range(archive_requests[c]) /\ pc'[c] # "fetch")
                => /\ pc'[c] = "done"
                   /\ out'[c] = LoopFailure
                   /\ archive_requests'[c] = archive_requests[c]]_vars

\* C8's case: a chain of two links came back to a visited path, and
\* fetch_file failed.
C8_LoopOfTwo ==
    \E c \in Conns :
        /\ pc[c] = "done"
        /\ out[c] = LoopFailure
        /\ Len(archive_requests[c]) = 2

\* The kinds the specification names and the plugin never raises.
BadArgument == "BadArgument"

InDataCall(c) == pc[c] = "done" /\ op[c].kind = "exec" /\ op[c].in_data

BadRemote(o) == o.kind = "put" /\ ~StartsWithSlash(o.out_path)
MissingLocal(o) == o.kind = "put" /\ StartsWithSlash(o.out_path) /\ o.in_path \notin LocalFiles
BadLocal(o) == o.kind = "fetch" /\ ~StartsWithSlash(o.out_path)
BadPaths(o) == BadRemote(o) \/ MissingLocal(o) \/ BadLocal(o)
ConnectCalls == {"list", "create", "reload"}
NotAbsolute == Out(ConnectionFailure, "Only absolute paths are available")

C11_ConnectIdempotentCached ==
    /\ [](\A c \in Conns :
            /\ log[c].targets \subseteq {container[c]} \ {0}
            /\ pc[c] \in {"list", "create", "reload"} => ~connected[c])
    /\ [][\A c \in Conns :
            /\ container[c] # 0 => container'[c] = container[c]
            /\ (pc[c] = "idle" /\ connected[c] /\ pc'[c] # "idle")
                  => /\ pc'[c] \notin {"list", "create", "reload"}
                     /\ calls'[c] = {}
                     /\ UNCHANGED <<containers, labels, container, log>>
            /\ (pc[c] = "idle" /\ connected[c] /\ pc'[c] # "idle" /\ op'[c].kind = "connect")
                  => /\ pc'[c] = "done"
                     /\ out'[c] = Ok
                     /\ connected'[c]
            /\ ("reload" \in calls'[c] /\ "reload" \notin calls[c])
                  => (pc[c] = "reload" /\ ~connected[c])]_vars

\* C11's case: a connect on a connected connection returned without a runtime
\* call, after the connection had addressed requests to its container.
C11_ConnectedConnect ==
    \E c \in Conns :
        /\ pc[c] = "done" /\ op[c].kind = "connect"
        /\ out[c] = Ok /\ calls[c] = {}
        /\ connected[c]
        /\ log[c].targets = {container[c]}

\* C12: a connect whose list, create or reload call fails because the runtime
\* does not answer fails with the ConnectionFailure kind, at that one call
\* (list alone, or list and create, or the reload last, each made once and
\* nothing after the failed call), and the connection stays not connected.
C12_UnreachableConnectionFailure ==
    \A c \in Conns :
        (pc[c] = "done" /\ op[c].kind = "connect" /\ out[c].result # "ok")
            => /\ out[c].result = ConnectionFailure
               /\ ~connected[c]
               /\ out[c].msg \in calls[c]
               /\ out[c].msg = "list" => calls[c] = {"list"}
               /\ out[c].msg = "create" => calls[c] = {"list", "create"}

\* The two labels a connection lists and creates with.
PairOf(c) == [pid |-> playbook_pid[c], host |-> hostname[c]]

\* The file a remote path names.
FileAt(p) == Append(Resolve(SplitHead(p)), SplitTail(p))

\* The containers of connection c's pair in which put_file stored the file o.
PutInto(c, o) == {id \in 1..Len(labels) : labels[id] = PairOf(c) /\ StoredAt(id, o)}

\* The owner bits of the modes of the local files: 0o600 of 0o644, 0o700 of 0o4755.
OwnerBits == [p \in LocalFiles |-> IF LocalMode[p] = 420 THEN 384 ELSE 448]

\* C13: a put_file that succeeds stores one entry with the bytes of the local
\* file, its mode cut to the owner bits, the uid and gid the container
\* reported and empty owner names; and a fetch_file of a remote path that
\* succeeds after put_file calls of that path on the same (pid, hostname)
\* writes the bytes last put there.
C13_PutThenFetchRoundTrip ==
    [][\A c \in Conns :
          /\ (pc[c] = "upload" /\ pc'[c] = "done" /\ out'[c] = Ok)
                => /\ <<container[c], FileAt(op[c].out_path)>> \in DOMAIN stored'
                   /\ stored'[<<container[c], FileAt(op[c].out_path)>>] =
                         [content |-> LocalContent[op[c].in_path],
                          mode |-> OwnerBits[op[c].in_path],
                          uid |-> result[c].ids[1], uname |-> "",
                          gid |-> result[c].ids[2], gname |-> ""]
          /\ (pc[c] = "fetch" /\ pc'[c] = "done" /\ out'[c] = Ok)
                => \A id \in PutInto(c, FileAt(op[c].in_path)) :
                      PutInto(c, FileAt(op[c].in_path)) = {id}
                         => local'[op[c].out_path] = stored[<<id, FileAt(op[c].in_path)>>].content]_vars

\* The file, link or directory a link of the container names: its target
\* walked from the directory the link is in, or from the root when absolute.
LinkObject(links, o) ==
    Walk(IF links[o].abs THEN <<>> ELSE SubSeq(o, 1, Len(o) - 1), links[o].comps)

\* Where the chain of links that starts at o ends; <<"loop">> when it does not.
RECURSIVE Follow(_, _, _)
Follow(links, o, hops) ==
    IF o \notin Links THEN o
    ELSE IF hops = 0 THEN <<"loop">>
    ELSE Follow(links, LinkObject(links, o), hops - 1)
EndOf(links, p) == Follow(links, Resolve(p), Cardinality(Links))

\* The member counts of the archives looked at: none, one, several.
MaxMembers == 1 + Cardinality(Dirs \cup Files \cup Links)

FetchDone(c) == pc[c] = "done" /\ op[c].kind = "fetch" /\ StartsWithSlash(op[c].out_path)

\* C14: a turn of the loop that meets a link goes on with the path that
\* names what the link points to from its own directory (an absolute target
\* replaces the path); a fetch_file whose chain of links ends in a regular
\* file returns normally with that file's bytes in out_path, and no other
\* fetch_file returns normally; a chain that ends in a directory (an archive
\* of several members, or of the one directory) fails with
\* AnsibleConnectionFailure, as an archive of no member would.
C14_LinksFollowedToFile ==
    /\ [](\A n \in 0..MaxMembers : BadMembersLength(n) <=> (n = 0 \/ n > 1))
    /\ [][\A c \in Conns :
            (pc[c] = "fetch" /\ pc'[c] = "fetch" /\ archive_requests'[c] # archive_requests[c])
                => /\ Resolve(in_path[c]) \in Links
                   /\ Resolve(in_path'[c]) = LinkObject(fs, Resolve(in_path[c]))
                   /\ fs[Resolve(in_path[c])].abs => in_path'[c] = fs[Resolve(in_path[c])]
                   /\ local' = local]_vars
    /\ [](\A c \in Conns : FetchDone(c) =>
            LET end == EndOf(fs, op[c].in_path) IN
            /\ end \in Files => /\ out[c] = Ok
                                /\ local[op[c].out_path] = ContentOf(container[c], end)
            /\ out[c] = Ok => (end \in Files /\ ~BadMembersLength(ArchiveOf(container[c], in_path[c]).n))
            /\ out[c].msg = "Bad members length" =>
                  (out[c].result = ConnectionFailure /\ ArchiveOf(container[c], in_path[c]).n \in {0} \cup (2..MaxMembers))
            /\ end \in Dirs => /\ out[c].result = ConnectionFailure
                               /\ out[c].msg = IF Below(end) = {} THEN "Bad member" ELSE "Bad members length")

\* C14's case: a chain of two links ended in the regular file, and its bytes
\* are in out_path.
C14_TwoLinksThenFile ==
    \E c \in Conns :
        /\ FetchDone(c)
        /\ out[c] = Ok
        /\ Len(archive_requests[c]) = 3
        /\ local[op[c].out_path] = ImageContent

\* An exec_command whose three runtime calls were answered.
ExecDone(c) ==
    pc[c] = "done" /\ op[c].kind = "exec" /\ ~op[c].in_data /\ "exec_inspect" \in calls[c]

\* C15: exec_command returns normally whatever the exit code is; the code
\* returned is the ExitCode of exec_inspect, and 0 when there is none;
\* stdout and stderr are returned each for itself, as exec_start gave them,
\* and as empty bytes when it gave None.
C15_ExitCodeAndStreams ==
    \A c \in Conns : ExecDone(c) =>
        /\ out[c].result = "ok"
        /\ result[c].ExitCode = None => out[c].exit = 0
        /\ result[c].ExitCode # None => out[c].exit = result[c].ExitCode
        /\ result[c].stdout = NoBytes => out[c].stdout = ""
        /\ result[c].stdout # NoBytes => out[c].stdout = result[c].stdout
        /\ result[c].stderr = NoBytes => out[c].stderr = ""
        /\ result[c].stderr # NoBytes => out[c].stderr = result[c].stderr

\* C15's case: the command exited with 1, wrote nothing to stdout and
\* something to stderr, and exec_command returned just that.
C15_NonZeroReturned ==
    \E c \in Conns :
        /\ ExecDone(c)
        /\ result[c].ExitCode = 1 /\ result[c].stdout = NoBytes /\ result[c].stderr = "x"
        /\ out[c] = [Ok EXCEPT !.exit = 1, !.stderr = "x"]

\* C15's other case: exec_inspect gave no exit code, and 0 was returned.
C15_AbsentReturnedZero ==
    \E c \in Conns : ExecDone(c) /\ result[c].ExitCode = None /\ out[c].exit = 0

PutOp(c) == op[c].kind = "put"
PutDone(c) == pc[c] = "done" /\ PutOp(c)
IdFailure == Out(ConnectionFailure, "Could not obtain uid/gid")
UploadFailure == Out(ConnectionFailure, "Unknown error while sending file")

\* C16: put_file goes through its steps in order.  The exec of id comes after
\* the two checks passed and before any upload; the upload comes after an id
\* that exited with 0 (or without a code), is made once, and names the
\* directory of out_path.  When id exits with another code put_file fails
\* with AnsibleConnectionFailure and makes no put_archive call; when
\* put_archive returns false put_file fails with AnsibleConnectionFailure.
C16_PutFileStepOrder ==
    /\ [](\A c \in Conns :
            /\ pc[c] = "id" =>
                  /\ PutOp(c)
                  /\ StartsWithSlash(op[c].out_path) /\ op[c].in_path \in LocalFiles
                  /\ calls[c] \subseteq ConnectCalls
                  /\ archive_requests[c] = <<>>
            /\ pc[c] = "upload" =>
                  /\ PutOp(c)
                  /\ ExecCalls \subseteq calls[c] /\ "put_archive" \notin calls[c]
                  /\ archive_requests[c] = <<>>
                  /\ result[c].ExitCode \in {None, 0}
            /\ (PutDone(c) /\ "put_archive" \in calls[c]) =>
                  /\ ExecCalls \subseteq calls[c]
                  /\ archive_requests[c] = <<SplitHead(op[c].out_path)>>
                  /\ result[c].ExitCode \in {None, 0}
                  /\ \/ out[c] = Out(DockerError, "put_archive")
                     \/ result[c].put_successful /\ out[c] = Ok
                     \/ ~result[c].put_successful /\ out[c] = UploadFailure
            /\ (PutDone(c) /\ "exec_inspect" \in calls[c] /\ result[c].ExitCode \notin {None, 0}) =>
                  /\ out[c] = IdFailure
                  /\ "put_archive" \notin calls[c]
                  /\ archive_requests[c] = <<>>)
    /\ [][\A c \in Conns :
            /\ (pc[c] = "id" /\ pc'[c] = "done") => stored' = stored
            /\ pc'[c] = "upload" => pc[c] \in {"id", "upload"}
            /\ (pc[c] = "upload" /\ pc'[c] # "upload") => pc'[c] = "done"]_vars

\* C16's case: id exited with 1 and put_file failed without an upload.
C16_IdFailedNoUpload ==
    \E c \in Conns :
        /\ PutDone(c)
        /\ result[c].ExitCode = 1
        /\ out[c] = IdFailure
        /\ "put_archive" \notin calls[c]

\* C16's other case: the one upload returned false and put_file failed.
C16_UploadReturnedFalse ==
    \E c \in Conns :
        /\ PutDone(c)
        /\ "put_archive" \in calls[c]
        /\ ~result[c].put_successful
        /\ out[c] = UploadFailure

\* C17: cleanup and resolution stay within their run.  Every container a
\* cleanup has listed, and every container it removes, carries the pid the
\* cleanup was called for; the container a connection has resolved carries
\* the connection's own pid and hostname, whatever other runs have.
C17_OwnRunOnly ==
    /\ [](/\ \A x \in cleanup.todo : labels[x].pid = cleanup.pid
          /\ \A c \in Conns : container[c] # 0 => labels[container[c]] = PairOf(c))
    /\ [][(cleanup.pc = "removing" /\ cleanup'.todo # cleanup.todo)
            => \A x \in containers \ containers' : labels[x].pid = cleanup.pid]_vars

\* C17's case: two connections of one hostname and of different runs resolved
\* a container each; the cleanup of the first run has removed its container,
\* and the container of the other run runs.
C17_OtherRunKept ==
    \E a \in Conns : \E b \in Conns :
        /\ hostname[a] = hostname[b]
        /\ playbook_pid[a] # playbook_pid[b]
        /\ container[a] # 0 /\ container[a] \notin containers
        /\ Resolved(b)
        /\ cleanup.pc = "done" /\ cleanup.pid = playbook_pid[a]
        /\ counts.external = 0

\* C18: a fetch_file that fails leaves the local files as they were, and a
\* local file is written only in the step in which fetch_file decoded the one
\* regular file of an archive and returns normally; it is the file at
\* out_path of that call that is written.
C18_FailedFetchLeavesLocal ==
    [][/\ \A c \in Conns :
            (pc[c] # "done" /\ pc'[c] = "done" /\ op'[c].kind = "fetch" /\ out'[c] # Ok)
                => local' = local
       /\ local' # local =>
            \E c \in Conns :
                /\ pc[c] = "fetch" /\ pc'[c] = "done" /\ out'[c] = Ok
                /\ ArchiveOf(container[c], in_path[c]) = FileArchive
                /\ \A p \in LocalOutputs \ {op[c].out_path} : local'[p] = local[p]]_vars

\* C18's case: fetch_file failed on a directory, a loop or several members
\* and the bytes an earlier fetch_file wrote to out_path are still there.
C18_FailedAfterSuccess ==
    \E c \in Conns :
        /\ FetchDone(c)
        /\ out[c].result = ConnectionFailure
        /\ Len(archive_requests[c]) >= 2
        /\ local[op[c].out_path] = ImageContent

\* C19: over the life of a connection at most one containers.run call
\* returns, and it is made with nothing cached; once a container is cached no
\* call of the connection lists or creates again, also when the container no
\* longer runs: the calls go on with the cached id.
C19_AtMostOneCreate ==
    /\ [](\A c \in Conns :
            /\ log[c].creates <= 1
            /\ pc[c] \in {"list", "create"} => (container[c] = 0 /\ log[c].creates = 0))
    /\ [][\A c \in Conns :
            /\ log'[c].creates # log[c].creates =>
                  (container[c] = 0 /\ container'[c] = Len(labels') /\ Len(labels') = Len(labels) + 1)
            /\ (container[c] # 0 /\ container[c] \notin containers) =>
                  /\ container'[c] = container[c]
                  /\ log'[c].creates = log[c].creates
                  /\ log'[c].targets \subseteq {container[c]}
                  /\ (calls'[c] \ calls[c]) \cap {"list", "create"} = {}
                  /\ pc'[c] \notin {"list", "create"}]_vars

\* C19's case: cleanup removed the container the connection had created; the
\* connection, closed, connected again: the reload of the cached container
\* failed and nothing was created.
C19_NoReplacement ==
    \E c \in Conns :
        /\ pc[c] = "done" /\ op[c].kind = "connect"
        /\ out[c] = Out(DockerError, "reload")
        /\ calls[c] = {"reload"}
        /\ log[c].creates = 1
        /\ cleanup.pc = "done" /\ cleanup.pid = playbook_pid[c]
        /\ counts.external = 0
        /\ containers = {}
        /\ Len(labels) = 1
====
